---- MODULE Spec2Model ----
(***************************************************************************)
(* The one-time-code login flow of the Nextest tutorial portal.            *)
(*                                                                         *)
(*   src/unnamed/part_000  the Express application: /api/auth/login,       *)
(*                         /api/auth/verify, /api/auth/me over the users   *)
(*                         and verification_codes tables and the session   *)
(*   src/api/index.js      the serverless handler: the same login and      *)
(*                         verify routes answered without a datastore      *)
(*                                                                         *)
(* Strings are sequences: an email is a sequence of text chunks, a code a  *)
(* sequence of decimal digits.  A request field is a tagged value, so      *)
(* that an absent field (undefined) and a field that is not a string are   *)
(* inputs like any other.                                                  *)
(***************************************************************************)
EXTENDS Integers, Sequences, FiniteSets

(***************************************************************************)
(* Bounds of the model.                                                    *)
(***************************************************************************)
\* Significant bits of the floating-point format Math.random() and the
\* arithmetic of the generator work in (an IEEE double has 53).
MantBits == 15
\* Rows the verification_codes table may hold.
MaxRows == 2
\* Requests handled in one behaviour.
MaxReqs == 4
\* Times the clock advances in one behaviour.
MaxTicks == 2

(***************************************************************************)
(* Floating-point arithmetic of generateVerificationCode.                  *)
(* A value is held as an integer count of units of 1/Scale; every value    *)
(* the generator computes is an exact multiple of that unit before it is   *)
(* rounded to MantBits significant bits (round to nearest, ties to even).  *)
(***************************************************************************)
RECURSIVE Pow2(_)
Pow2(n) == IF n = 0 THEN 1 ELSE 2 * Pow2(n - 1)

RECURSIVE BitLen(_)
BitLen(n) == IF n = 0 THEN 0 ELSE 1 + BitLen(n \div 2)

\* 900000 = 32 * 28125, so r * 900000 with r = k / 2^MantBits is a multiple
\* of 32 / 2^MantBits.
Scale == Pow2(MantBits) \div 32

RoundToMant(n) ==
    IF BitLen(n) <= MantBits THEN n
    ELSE LET s    == Pow2(BitLen(n) - MantBits)
             q    == n \div s
             rem  == n % s
             half == s \div 2
         IN  IF rem > half \/ (rem = half /\ q % 2 = 1)
             THEN (q + 1) * s
             ELSE q * s

\* The values Math.random() returns: k / 2^MantBits for k in RandomRange.
RandomRange == 0 .. (Pow2(MantBits) - 1)

\* fl(r * 900000), in units of 1/Scale.
TimesRange(k) == RoundToMant(k * (900000 \div 32))

\* fl(100000 + x), in units of 1/Scale.
PlusBase(x) == RoundToMant(100000 * Scale + x)

\* Math.floor of a value held in units of 1/Scale.
Floor(x) == x \div Scale

\* Number.prototype.toString(): the decimal digits of a natural number.
RECURSIVE ToString(_)
ToString(n) == IF n < 10 THEN <<n>> ELSE Append(ToString(n \div 10), n % 10)

\* A plausible slip: the offset 100000 left out, Math.floor(Math.random() * 900000).
generateVerificationCodeNoOffset(k) == ToString(Floor(TimesRange(k)))

\* Math.floor(100000 + Math.random() * 900000).toString()
generateVerificationCode(k) == ToString(Floor(PlusBase(TimesRange(k))))

(***************************************************************************)
(* Request values.                                                         *)
(***************************************************************************)
Str(s) == [t |-> "string", v |-> s]
Undefined == [t |-> "undefined", v |-> <<>>]
\* A JSON value that is no string (a number, say): it has no endsWith.
NotAString == [t |-> "number", v |-> <<>>]

\* JavaScript's !x for the values above.
Falsy(x) == x.t = "undefined" \/ (x.t = "string" /\ x.v = <<>>)

\* A plausible slip: includes for endsWith.
Includes(s, suffix) ==
    \E i \in 1 .. Len(s) :
        /\ i + Len(suffix) - 1 <= Len(s)
        /\ SubSeq(s, i, i + Len(suffix) - 1) = suffix

\* String.prototype.endsWith
EndsWith(s, suffix) ==
    /\ Len(s) >= Len(suffix)
    /\ SubSeq(s, Len(s) - Len(suffix) + 1, Len(s)) = suffix

Domain == <<"@nextest.com.br">>

\* 10 * 60 * 1000 milliseconds.
TenMinutes == 10 * 60 * 1000

(***************************************************************************)
(* Data.                                                                   *)
(***************************************************************************)
EmailA == <<"a", "@nextest.com.br">>
EmailB == <<"b", "@nextest.com.br">>
\* An address of the domain that no user has.
EmailGhost == <<"ghost", "@nextest.com.br">>
EmailOther == <<"a", "@gmail.com">>
\* The domain inside the address but not at its end.
EmailInfix == <<"a", "@nextest.com.br", ".example.org">>

\* The users table as the flow finds it: rows created out of band.
InitialUsers == { [id |-> "u1", email |-> EmailA], [id |-> "u2", email |-> EmailB] }

Sessions == {"s1", "s2"}

\* What Math.random() returns in the behaviours explored: 0 and the largest
\* value below 1.
RandomSamples == {0, Pow2(MantBits) - 1}

\* A code the generator issues for none of RandomSamples.
NeverIssued == <<1, 2, 3, 4, 5, 6>>
\* A code of five characters.
ShortCode == <<1, 2, 3, 4, 5>>

\* By how much the clock advances between two requests: to one millisecond
\* short of ten minutes later, then by the one millisecond left, in turn.
TickStep(n) == IF n % 2 = 0 THEN TenMinutes - 1 ELSE 1

\* The codes of RandomSamples.
Issued == [k \in RandomSamples |-> generateVerificationCode(k)]

LoginEmails ==
    { Undefined, NotAString, Str(<<>>), Str(EmailA), Str(EmailB), Str(EmailGhost),
      Str(EmailOther), Str(EmailInfix) }

VerifyEmails == { Str(EmailA), Str(EmailB) }

VerifyCodes == { Str(Issued[k]) : k \in RandomSamples } \cup { Str(NeverIssued) }

Procs == {1, 2}

VARIABLES
    users,              \* the users table: a set of [id, email]
    verificationCodes,  \* the verification_codes table: rows in order of insertion,
                        \* a row's id is its position
    session,            \* the session store: session id -> userId, "undefined" when unset
    now,                \* Date.now()
    ticks,              \* times the clock has advanced
    nodeEnv,            \* process.env.NODE_ENV
    res,                \* the response to the request handled last
    reqNo,              \* requests handled so far
    okLog,              \* history: the <<email, code>> pairs a verify has answered 200 for
    lastVerify,         \* history: session id -> the user id the last verify that answered
                        \* 200 on it returned ("none" before any)
    pc,                 \* per concurrent verify request: where its handler stands
    req,                \* per concurrent verify request: its session, email and code
    vc,                 \* per concurrent verify request: the id of the row its lookup returned
    out,                \* per concurrent verify request: the status it answered (0 before)
    rnd,                \* the value Math.random() returned to the generator
    generated           \* the code the generator made of rnd (<<>> before)

vars == << users, verificationCodes, session, now, ticks, nodeEnv, res, reqNo,
           okLog, lastVerify, pc, req, vc, out, rnd, generated >>

store == << users, verificationCodes, session >>
config == << nodeEnv >>
history == << okLog, lastVerify >>
conc == << pc, req, vc, out >>
gen == << rnd, generated >>

NoRes ==
    [ op |-> "none", impl |-> "none", sid |-> "none", email |-> Undefined, code |-> Undefined,
      status |-> 0, message |-> "", user |-> "undefined", debugCode |-> Undefined,
      row |-> 0, mail |-> "none", db |-> "ok", at |-> 0 ]

NoReq == [ sid |-> "none", email |-> Undefined, code |-> Undefined ]

InitCommon ==
    /\ users = InitialUsers
    /\ verificationCodes = <<>>
    /\ session = [s \in Sessions |-> "undefined"]
    /\ now = 0
    /\ ticks = 0
    /\ nodeEnv \in {"production", "development"}
    /\ res = NoRes
    /\ reqNo = 0
    /\ okLog = {}
    /\ lastVerify = [s \in Sessions |-> "none"]
    /\ pc = [p \in Procs |-> "idle"]
    /\ req = [p \in Procs |-> NoReq]
    /\ vc = [p \in Procs |-> 0]
    /\ out = [p \in Procs |-> 0]

Init ==
    /\ InitCommon
    /\ rnd = 0
    /\ generated = <<>>

(***************************************************************************)
(* Queries on the tables.                                                  *)
(***************************************************************************)
\* db.select().from(users).where(eq(users.email, email)): users.email is unique.
UsersByEmail(e) == { u \in users : u.email = e }

\* db.select().from(users).where(eq(users.id, userId))
UsersById(id) == { u \in users : u.id = id }

\* user?.id of the first row of a result, "undefined" for an empty result.
IdOf(us) == IF us = {} THEN "undefined" ELSE (CHOOSE u \in us : TRUE).id

\* A plausible slip: gte for gt in the expiry condition.
MatchesAtOrAfter(row, e, c, t) ==
    /\ row.email = e
    /\ row.code = c
    /\ row.used = FALSE
    /\ row.expiresAt >= t

\* and(eq(email), eq(code), eq(used, false), gt(expiresAt, new Date()))
Matches(row, e, c, t) ==
    /\ row.email = e
    /\ row.code = c
    /\ row.used = FALSE
    /\ row.expiresAt > t

\* The ids of the rows the lookup of verify selects.  The query has no ORDER BY:
\* the row the handler destructures first is any one of them.
Matching(e, c, t) ==
    { i \in 1 .. Len(verificationCodes) : Matches(verificationCodes[i], e, c, t) }

\* A plausible slip: the lifetime written in seconds where Date counts
\* milliseconds.
NewRowSecondsLifetime(e, c, t) ==
    [ id |-> Len(verificationCodes) + 1, email |-> e, code |-> c,
      expiresAt |-> t + 10 * 60, used |-> FALSE, createdAt |-> t ]

\* db.insert(verificationCodes).values({email, code, expiresAt}): used and
\* createdAt take their column defaults.
NewRow(e, c, t) ==
    [ id |-> Len(verificationCodes) + 1, email |-> e, code |-> c,
      expiresAt |-> t + TenMinutes, used |-> FALSE, createdAt |-> t ]

\* db.update(verificationCodes).set({used: true}).where(eq(id, X))
MarkUsed(i) == [verificationCodes EXCEPT ![i].used = TRUE]

\* res.status(status).json(body).  The messages are written without their
\* diacritics; row and mail record which row the handler inserted or consumed
\* and how the mail ended, at the clock reading the request was handled; db
\* records that every query of the request resolved.
Respond(op, impl, sid, e, c, status, message, user, debugCode, row, mail) ==
    /\ res' = [ op |-> op, impl |-> impl, sid |-> sid, email |-> e, code |-> c,
                status |-> status, message |-> message, user |-> user,
                debugCode |-> debugCode, row |-> row, mail |-> mail,
                db |-> "ok", at |-> now ]
    /\ reqNo' = reqNo + 1

\* error.message of the error a rejected query throws.
DbError == "error.message"

\* The response of a catch block that a rejected query reached.  It carries
\* nothing of the request's body; row is the row the handler had updated before.
RespondError(op, sid, status, message, row) ==
    /\ res' = [ op |-> op, impl |-> "app", sid |-> sid, email |-> Undefined,
                code |-> Undefined,
                status |-> status, message |-> message, user |-> "undefined",
                debugCode |-> Undefined, row |-> row, mail |-> "none",
                db |-> "fails", at |-> now ]
    /\ reqNo' = reqNo + 1

(***************************************************************************)
(* src/unnamed/part_000: the Express application.                          *)
(***************************************************************************)
\* A plausible slip: the insert placed after the mail, inside its try block, so
\* that a rejected sendMail skips it.
InsertUnlessMailThrows(row, mailThrows) ==
    IF mailThrows THEN verificationCodes ELSE Append(verificationCodes, row)

\* A plausible slip: the insert retiring the codes the email still holds.
InsertRetiringOlder(row, mailThrows) ==
    Append([i \in 1 .. Len(verificationCodes) |->
               IF verificationCodes[i].email = row.email
               THEN [verificationCodes[i] EXCEPT !.used = TRUE]
               ELSE verificationCodes[i]],
           row)

\* await db.insert(verificationCodes).values(...), before the mail is attempted.
Insert(row, mailThrows) == Append(verificationCodes, row)

\* The ways sendVerificationCode can end: it returns (no transport is configured,
\* or sendMail resolves) or it throws (a transport is configured and sendMail
\* rejects).
MailOutcomes == {"sent", "throws"}

\* POST /api/auth/login with body {email: e}.
Login(e) ==
    /\ reqNo < MaxReqs
    /\ IF ~Falsy(e) /\ e.t # "string"
       THEN \* email.endsWith is not a function: the TypeError reaches the catch
            /\ Respond("login", "app", "none", e, Undefined, 400,
                       "email.endsWith is not a function", "undefined", Undefined, 0, "none")
            /\ UNCHANGED verificationCodes
       ELSE IF Falsy(e) \/ ~EndsWith(e.v, Domain)
       THEN /\ Respond("login", "app", "none", e, Undefined, 400,
                       "Email deve ser do dominio @nextest.com.br", "undefined",
                       Undefined, 0, "none")
            /\ UNCHANGED verificationCodes
       ELSE IF UsersByEmail(e.v) = {}
       THEN /\ Respond("login", "app", "none", e, Undefined, 404,
                       "Usuario nao encontrado. Crie uma conta primeiro.", "undefined",
                       Undefined, 0, "none")
            /\ UNCHANGED verificationCodes
       ELSE \E k \in RandomSamples, mail \in MailOutcomes :
              LET code == Issued[k]
                  row  == NewRow(e.v, code, now)
              IN  /\ Len(verificationCodes) < MaxRows
                  /\ verificationCodes' = Insert(row, mail = "throws")
                  /\ IF mail = "throws"
                     THEN Respond("login", "app", "none", e, Str(code), 200,
                                  "Codigo gerado (email nao enviado)", "undefined",
                                  Str(code), row.id, "throws")
                     ELSE Respond("login", "app", "none", e, Str(code), 200,
                                  "Codigo de verificacao enviado", "undefined",
                                  Undefined, row.id, "sent")
    /\ UNCHANGED << users, session, now, ticks, config, history, conc, gen >>

\* A plausible slip: the rejection telling its cause.
VerifyRejectionByCause(e, c, t) ==
    IF \E i \in 1 .. Len(verificationCodes) :
          verificationCodes[i].email = e /\ verificationCodes[i].code = c
    THEN IF \E i \in 1 .. Len(verificationCodes) :
               /\ verificationCodes[i].email = e /\ verificationCodes[i].code = c
               /\ verificationCodes[i].expiresAt > t
         THEN "Codigo ja utilizado"
         ELSE "Codigo expirado"
    ELSE "Codigo invalido"

\* if (!verificationCode): the one message of every rejection by the lookup.
VerifyRejection(e, c, t) == "Codigo invalido ou expirado"

\* req.session.userId = user?.id
VerifySession(s, id) == [session EXCEPT ![s] = id]

\* POST /api/auth/verify, handled without another request in between.
Verify(s, e, c) ==
    /\ reqNo < MaxReqs
    /\ LET m == Matching(e.v, c.v, now)
       IN  IF m = {}
           THEN /\ Respond("verify", "app", s, e, c, 400, VerifyRejection(e.v, c.v, now),
                           "undefined", Undefined, 0, "none")
                /\ UNCHANGED << verificationCodes, session, history >>
           ELSE \E i \in m :
                  LET id == IdOf(UsersByEmail(e.v))
                  IN  /\ verificationCodes' = MarkUsed(i)
                      /\ session' = VerifySession(s, id)
                      /\ Respond("verify", "app", s, e, c, 200, "", id, Undefined, i, "none")
                      /\ okLog' = okLog \cup { << e.v, c.v >> }
                      /\ lastVerify' = [lastVerify EXCEPT ![s] = id]
    /\ UNCHANGED << users, now, ticks, config, conc, gen >>

\* GET /api/auth/me
Me(s) ==
    /\ reqNo < MaxReqs
    /\ LET userId == session[s]
       IN  IF userId = "undefined"
           THEN Respond("me", "app", s, Undefined, Undefined, 401, "Nao autorizado",
                        "undefined", Undefined, 0, "none")
           ELSE IF UsersById(userId) = {}
           THEN Respond("me", "app", s, Undefined, Undefined, 404, "Usuario nao encontrado",
                        "undefined", Undefined, 0, "none")
           ELSE Respond("me", "app", s, Undefined, Undefined, 200, "",
                        IdOf(UsersById(userId)), Undefined, 0, "none")
    /\ UNCHANGED << store, now, ticks, config, history, conc, gen >>

(***************************************************************************)
(* The same routes when a query rejects (the datastore is unreachable, the *)
(* connection drops): the await throws and the route's catch answers.      *)
(***************************************************************************)
\* The awaits of login that can reject: the user query and the insert.
LoginQueries == {"users", "insert"}

\* POST /api/auth/login, query q rejecting: catch (error) answers 400 with
\* error.message.  A rejected insert stores no row.
LoginDbFails(e, q) ==
    /\ reqNo < MaxReqs
    /\ e.t = "string" /\ ~Falsy(e) /\ EndsWith(e.v, Domain)
    /\ q = "insert" => UsersByEmail(e.v) # {}
    /\ RespondError("login", "none", 400, DbError, 0)
    /\ UNCHANGED << store, now, ticks, config, history, conc, gen >>

\* The awaits of verify that can reject: the lookup, the update and the user
\* query.
VerifyQueries == {"codes", "update", "users"}

\* POST /api/auth/verify, query q rejecting: catch (error) answers 400 with
\* error.message.  The update has been committed when the user query rejects,
\* and req.session.userId is not assigned.
VerifyDbFails(s, e, c, q) ==
    /\ reqNo < MaxReqs
    /\ LET m == Matching(e.v, c.v, now)
       IN  IF q = "codes"
           THEN /\ RespondError("verify", s, 400, DbError, 0)
                /\ UNCHANGED verificationCodes
           ELSE IF q = "update"
           THEN /\ m # {}
                /\ RespondError("verify", s, 400, DbError, 0)
                /\ UNCHANGED verificationCodes
           ELSE \E i \in m :
                  /\ verificationCodes' = MarkUsed(i)
                  /\ RespondError("verify", s, 400, DbError, i)
    /\ UNCHANGED << users, session, now, ticks, config, history, conc, gen >>

\* GET /api/auth/me, the user query rejecting: catch (error) answers 500.
MeDbFails(s) ==
    /\ reqNo < MaxReqs
    /\ session[s] # "undefined"
    /\ RespondError("me", s, 500, "Erro ao buscar usuario", 0)
    /\ UNCHANGED << store, now, ticks, config, history, conc, gen >>

(***************************************************************************)
(* src/api/index.js: the serverless handler.  It reads and writes no       *)
(* table and no session.                                                   *)
(***************************************************************************)
\* pathname === '/api/auth/login' && req.method === 'POST'
HandlerLogin(e) ==
    /\ reqNo < MaxReqs
    /\ IF Falsy(e)
       THEN Respond("login", "handler", "none", e, Undefined, 400, "Email e obrigatorio",
                    "undefined", Undefined, 0, "none")
       ELSE IF e.t # "string"
       THEN \* email.endsWith is not a function: the outer catch answers
            Respond("login", "handler", "none", e, Undefined, 500,
                    "Erro interno do servidor", "undefined", Undefined, 0, "none")
       ELSE IF ~EndsWith(e.v, Domain)
       THEN Respond("login", "handler", "none", e, Undefined, 400,
                    "Email deve ser do dominio @nextest.com.br", "undefined",
                    Undefined, 0, "none")
       ELSE \E k \in RandomSamples :
              LET code == Issued[k]
              IN  Respond("login", "handler", "none", e, Str(code), 200,
                          "Codigo de verificacao gerado (mock)", "undefined", Str(code),
                          0, "none")
    /\ UNCHANGED << store, now, ticks, config, history, conc, gen >>

\* pathname === '/api/auth/verify' && req.method === 'POST'
HandlerVerify(e, c) ==
    /\ reqNo < MaxReqs
    /\ IF Falsy(e) \/ Falsy(c)
       THEN Respond("verify", "handler", "none", e, c, 400,
                    "Email e codigo sao obrigatorios", "undefined", Undefined, 0, "none")
       ELSE IF Len(c.v) # 6
       THEN Respond("verify", "handler", "none", e, c, 400, "Codigo deve ter 6 digitos",
                    "undefined", Undefined, 0, "none")
       ELSE Respond("verify", "handler", "none", e, c, 200, "Login realizado (mock)",
                    "1", Undefined, 0, "none")
    /\ UNCHANGED << store, now, ticks, config, history, conc, gen >>

(***************************************************************************)
(* The environment.                                                        *)
(***************************************************************************)
\* Time passes between two requests.
Tick ==
    /\ ticks < MaxTicks
    /\ now' = now + TickStep(ticks)
    /\ ticks' = ticks + 1
    /\ UNCHANGED << store, config, res, reqNo, history, conc, gen >>

\* The users table is maintained out of band: a user row goes away.
RemoveUser(u) ==
    /\ u \in users
    /\ users' = users \ {u}
    /\ UNCHANGED << verificationCodes, session, now, ticks, config, res, reqNo, history,
                    conc, gen >>

(***************************************************************************)
(* Requests handled one after the other.                                   *)
(***************************************************************************)
\* The bodies the handler's verify route is sent.
HandlerVerifyEmails == { Str(EmailA), Undefined }
HandlerVerifyCodes == { Str(NeverIssued), Str(ShortCode), Undefined }

Next ==
    \/ \E e \in LoginEmails : Login(e)
    \/ \E s \in Sessions, e \in VerifyEmails, c \in VerifyCodes : Verify(s, e, c)
    \/ \E s \in Sessions : Me(s)
    \/ \E e \in LoginEmails, q \in LoginQueries : LoginDbFails(e, q)
    \/ \E s \in Sessions, e \in VerifyEmails, c \in VerifyCodes, q \in VerifyQueries :
          VerifyDbFails(s, e, c, q)
    \/ \E s \in Sessions : MeDbFails(s)
    \/ \E e \in LoginEmails : HandlerLogin(e)
    \/ \E e \in HandlerVerifyEmails, c \in HandlerVerifyCodes : HandlerVerify(e, c)
    \/ Tick
    \/ \E u \in InitialUsers : RemoveUser(u)

Spec == Init /\ [][Next]_vars

(***************************************************************************)
(* Verify requests in flight together.  The handler awaits three times:    *)
(* the lookup, the update and the user query; between two of them another  *)
(* request's steps may run.                                                *)
(***************************************************************************)
\* const [verificationCode] = await db.select()...; if none, 400.
VerifySelect(p, s, e, c) ==
    /\ pc[p] = "idle"
    /\ req' = [req EXCEPT ![p] = [sid |-> s, email |-> e, code |-> c]]
    /\ LET m == Matching(e.v, c.v, now)
       IN  IF m = {}
           THEN /\ pc' = [pc EXCEPT ![p] = "done"]
                /\ out' = [out EXCEPT ![p] = 400]
                /\ UNCHANGED vc
           ELSE \E i \in m :
                  /\ vc' = [vc EXCEPT ![p] = i]
                  /\ pc' = [pc EXCEPT ![p] = "selected"]
                  /\ UNCHANGED out
    /\ UNCHANGED << store, now, ticks, config, res, reqNo, history, gen >>

\* await db.update(verificationCodes).set({used: true}).where(eq(id, verificationCode.id))
VerifyUpdate(p) ==
    /\ pc[p] = "selected"
    /\ verificationCodes' = MarkUsed(vc[p])
    /\ pc' = [pc EXCEPT ![p] = "updated"]
    /\ UNCHANGED << users, session, now, ticks, config, res, reqNo, history, req, vc, out, gen >>

\* const [user] = await db.select().from(users)...; req.session.userId = user?.id;
\* res.json({ user })
VerifyRespond(p) ==
    /\ pc[p] = "updated"
    /\ LET id == IdOf(UsersByEmail(req[p].email.v))
       IN  /\ session' = VerifySession(req[p].sid, id)
           /\ lastVerify' = [lastVerify EXCEPT ![req[p].sid] = id]
    /\ okLog' = okLog \cup { << req[p].email.v, req[p].code.v >> }
    /\ out' = [out EXCEPT ![p] = 200]
    /\ pc' = [pc EXCEPT ![p] = "done"]
    /\ UNCHANGED << users, verificationCodes, now, ticks, config, res, reqNo, req, vc, gen >>

NextConc ==
    \/ \E e \in VerifyEmails : Login(e)
    \/ \E p \in Procs, s \in Sessions, e \in VerifyEmails, c \in VerifyCodes :
          VerifySelect(p, s, e, c)
    \/ \E p \in Procs : VerifyUpdate(p)
    \/ \E p \in Procs : VerifyRespond(p)
    \/ Tick

SpecConc == Init /\ [][NextConc]_vars

(***************************************************************************)
(* The generator alone, over every value Math.random() can return.         *)
(***************************************************************************)
InitGen ==
    /\ InitCommon
    /\ rnd \in RandomRange
    /\ generated = <<>>

Generate ==
    /\ generated = <<>>
    /\ generated' = generateVerificationCode(rnd)
    /\ UNCHANGED << store, now, ticks, config, res, reqNo, history, conc, rnd >>

NextGen == Generate

SpecGen == InitGen /\ [][NextGen]_vars

(***************************************************************************)
(* The claims.                                                             *)
(***************************************************************************)
\* A step that handled a request.
Handled == reqNo' # reqNo

\* The rows holding email e and code c.
RowsOf(e, c) ==
    { i \in 1 .. Len(verificationCodes) :
        verificationCodes[i].email = e /\ verificationCodes[i].code = c }

\* C1: of the verify requests in flight together for one email and one code
\* that a single row holds, exactly one answers 200 once that row has been
\* consumed; every other one answers 400.
C1_ExactlyOneSucceeds ==
    \A p \in Procs, q \in Procs :
        ( /\ p # q
          /\ pc[p] = "done" /\ pc[q] = "done"
          /\ req[p].email = req[q].email /\ req[p].code = req[q].code
          /\ \E i \in 1 .. Len(verificationCodes) :
                /\ RowsOf(req[p].email.v, req[p].code.v) = {i}
                /\ verificationCodes[i].used )
        => ( (out[p] = 200 /\ out[q] = 400) \/ (out[p] = 400 /\ out[q] = 200) )

\* C2: once a verify with an email and a code has answered 200, every later
\* verify with that email and that code answers 400, whatever codes were issued.
C2_NoSecondSuccess ==
    [][ ( /\ Handled
          /\ res'.op = "verify" /\ res'.impl = "app"
          /\ << res'.email.v, res'.code.v >> \in okLog )
        => res'.status = 400 ]_vars

\* C3: a verify never succeeds on the strength of a row at or after that row's
\* expiry, issuance time plus ten minutes: the row a successful verify
\* consumed was issued less than ten minutes before, and matched the request.
C3_ExpiredNeverVerifies ==
    ( res.op = "verify" /\ res.impl = "app" /\ res.status = 200 )
    => /\ res.row \in 1 .. Len(verificationCodes)
       /\ verificationCodes[res.row].email = res.email.v
       /\ verificationCodes[res.row].code = res.code.v
       /\ verificationCodes[res.row].expiresAt = verificationCodes[res.row].createdAt + TenMinutes
       /\ res.at < verificationCodes[res.row].createdAt + TenMinutes

\* C3, the case: a verify at the very expiry of an unused row holding its email
\* and code answered 400.
C3_Witness ==
    /\ res.op = "verify" /\ res.impl = "app" /\ res.status = 400
    /\ \E i \in 1 .. Len(verificationCodes) :
          /\ verificationCodes[i].email = res.email.v
          /\ verificationCodes[i].code = res.code.v
          /\ verificationCodes[i].used = FALSE
          /\ verificationCodes[i].expiresAt = res.at

\* C4: a successful login appends one unused row holding its email and the
\* issued code; and a verify whose queries resolve, with the email and code of
\* a row that is unused and less than ten minutes old, for an email that has a
\* user, answers 200
\* with that user, stores the user's id in the session and leaves that row used.
C4_IssuedCodeVerifies ==
    [][ /\ ( Handled /\ res'.op = "login" /\ res'.impl = "app" /\ res'.status = 200 )
           => /\ Len(verificationCodes') = Len(verificationCodes) + 1
              /\ res'.row = Len(verificationCodes')
              /\ verificationCodes'[res'.row].email = res'.email.v
              /\ verificationCodes'[res'.row].code = res'.code.v
              /\ verificationCodes'[res'.row].used = FALSE
        /\ \A i \in 1 .. Len(verificationCodes) :
             ( /\ Handled /\ res'.op = "verify" /\ res'.impl = "app" /\ res'.db = "ok"
               /\ verificationCodes[i].email = res'.email.v
               /\ verificationCodes[i].code = res'.code.v
               /\ verificationCodes[i].used = FALSE
               /\ now < verificationCodes[i].createdAt + TenMinutes
               /\ UsersByEmail(res'.email.v) # {} )
             => /\ res'.status = 200
                /\ res'.user = IdOf(UsersByEmail(res'.email.v))
                /\ session'[res'.sid] = res'.user
                /\ verificationCodes'[i].used = TRUE ]_vars

\* The emails of the claim C5: missing, empty, or a string whose end is not
\* the domain.
NotOfDomain(e) ==
    \/ e.t = "undefined"
    \/ e.t = "string" /\ (e.v = <<>> \/ e.v[Len(e.v)] # "@nextest.com.br")

\* C5: a login whose email is missing, empty or does not end with the domain
\* answers 400, generates no code, attempts no mail and leaves the rows as
\* they were.
C5_BadEmailRejected ==
    [][ ( Handled /\ res'.op = "login" /\ NotOfDomain(res'.email) )
        => /\ res'.status = 400
           /\ res'.code = Undefined /\ res'.debugCode = Undefined
           /\ res'.mail = "none" /\ res'.row = 0
           /\ verificationCodes' = verificationCodes ]_vars

\* C5, the case: with codes in the store, the Express login answered 400 to an
\* address that holds the domain but does not end with it.
C5_Witness ==
    /\ res.op = "login" /\ res.impl = "app" /\ res.status = 400
    /\ res.email = Str(EmailInfix)
    /\ Len(verificationCodes) > 0

\* C6: a login whose queries resolve, whose email ends with the domain and is
\* the email of no user, answers 404, generates and delivers no code and leaves the rows as they were.
C6_UnknownUserNotFound ==
    [][ ( /\ Handled /\ res'.op = "login" /\ res'.db = "ok"
          /\ res'.email.t = "string" /\ ~NotOfDomain(res'.email)
          /\ UsersByEmail(res'.email.v) = {} )
        => /\ res'.status = 404
           /\ res'.code = Undefined /\ res'.debugCode = Undefined
           /\ res'.mail = "none"
           /\ verificationCodes' = verificationCodes ]_vars

\* C7: whatever Math.random() returned, the generated code is a string of
\* exactly six decimal digits, the first of them not 0 (the integer is in
\* 100000..999999).
C7_SixDigits ==
    generated # <<>>
    => /\ Len(generated) = 6
       /\ \A i \in 1 .. Len(generated) : generated[i] \in 0 .. 9
       /\ generated[1] # 0

\* C7, the case: the generator has run on the largest value below 1.
C7_Witness ==
    /\ rnd = Pow2(MantBits) - 1
    /\ generated # <<>>

\* C8: a me whose query resolves answers 401 on a session with no stored user
\* id; and on a session where a verify has answered 200, me answers 200 with
\* the user that verify
\* returned (while that user's row exists), also when that verify found a code
\* but no user.
C8_MeAfterVerify ==
    [][ \A s \in Sessions :
          ( Handled /\ res'.op = "me" /\ res'.sid = s /\ res'.db = "ok" )
          => /\ ( session[s] = "undefined" /\ lastVerify[s] = "none" )
                => res'.status = 401
             /\ ( /\ lastVerify[s] # "none"
                  /\ lastVerify[s] = "undefined" \/ UsersById(lastVerify[s]) # {} )
                => ( res'.status = 200 /\ res'.user = lastVerify[s] ) ]_vars

\* C9: when the mail of a login throws, the login answers 200 and the row it
\* inserted is in the store, unused and verifiable with the issued code until
\* ten minutes after.
C9_MailFailureSoft ==
    ( res.op = "login" /\ res.impl = "app" /\ res.mail = "throws" )
    => /\ res.status = 200
       /\ res.row \in 1 .. Len(verificationCodes)
       /\ verificationCodes[res.row].email = res.email.v
       /\ verificationCodes[res.row].code = res.code.v
       /\ verificationCodes[res.row].used = FALSE
       /\ verificationCodes[res.row].expiresAt = res.at + TenMinutes
       /\ res.row \in Matching(res.email.v, res.code.v, res.at)

\* C9, the case: the mail of a login threw.
C9_Witness ==
    /\ res.op = "login" /\ res.impl = "app" /\ res.mail = "throws"
    /\ res.status = 200

\* C10: in production no login response carries the code.
C10_NoCodeInProduction ==
    ( res.op = "login" /\ nodeEnv = "production" ) => res.debugCode = Undefined

\* C11: a verify whose email and code no row holds, or only rows that are
\* expired or already used, gets one and the same response whatever the cause:
\* status 400, the message of the lookup's rejection, no user and no code.
C11_UniformRejection ==
    [][ ( /\ Handled /\ res'.op = "verify" /\ res'.impl = "app" /\ res'.db = "ok"
          /\ \A i \in RowsOf(res'.email.v, res'.code.v) :
                verificationCodes[i].used \/ verificationCodes[i].expiresAt <= now )
        => /\ res'.status = 400
           /\ res'.message = "Codigo invalido ou expirado"
           /\ res'.user = "undefined"
           /\ res'.debugCode = Undefined ]_vars

\* C11, the case: a verify was rejected for a code that a row of its email
\* holds, unexpired but already used.
C11_Witness ==
    /\ res.op = "verify" /\ res.impl = "app" /\ res.db = "ok" /\ res.status = 400
    /\ \E i \in RowsOf(res.email.v, res.code.v) :
          verificationCodes[i].used /\ verificationCodes[i].expiresAt > res.at

\* C12: a request during which a query rejected is answered 503 or 500 with a
\* generic message: never 400, and never with the error's own message.
C12_DatastoreFailureMapped ==
    res.db = "fails"
    => /\ res.status \in {500, 503}
       /\ res.message # "error.message"

\* C13: a verify answers 200 only if, when it looked, a row held exactly its
\* email and its code, unused, with its expiry after the current time; so a
\* code issued for another email, or never issued, verifies nothing.
C13_SuccessNeedsMatchingRow ==
    [][ ( Handled /\ res'.op = "verify" /\ res'.status = 200 )
        => \E i \in 1 .. Len(verificationCodes) :
              /\ verificationCodes[i].email = res'.email.v
              /\ verificationCodes[i].code = res'.code.v
              /\ verificationCodes[i].used = FALSE
              /\ verificationCodes[i].expiresAt > now ]_vars

\* C14: no step deletes a row; a row starts with used false; used never goes
\* back from true to false; and it goes from false to true only in a verify
\* that answers 200 for that row's email and code.
C14_UsedMonotone ==
    [][ /\ Len(verificationCodes') >= Len(verificationCodes)
        /\ \A i \in 1 .. Len(verificationCodes) :
              /\ verificationCodes[i].used => verificationCodes'[i].used
              /\ ( ~verificationCodes[i].used /\ verificationCodes'[i].used )
                 => /\ Handled /\ res'.op = "verify" /\ res'.status = 200
                    /\ res'.email.v = verificationCodes[i].email
                    /\ res'.code.v = verificationCodes[i].code
        /\ \A i \in (Len(verificationCodes) + 1) .. Len(verificationCodes') :
              verificationCodes'[i].used = FALSE ]_vars

\* C15: when several unused unexpired rows hold the email and code of a verify
\* that answers 200, exactly one row is marked used, and no other of those rows
\* was created after it.
C15_NewestMatchConsumed ==
    [][ LET M == { i \in RowsOf(res'.email.v, res'.code.v) :
                     /\ verificationCodes[i].used = FALSE
                     /\ verificationCodes[i].expiresAt > now }
            changed == { i \in 1 .. Len(verificationCodes) :
                           verificationCodes'[i] # verificationCodes[i] }
        IN  ( /\ Handled /\ res'.op = "verify" /\ res'.impl = "app" /\ res'.status = 200
              /\ Cardinality(M) >= 2 )
            => /\ Cardinality(changed) = 1
               /\ \A i \in changed :
                     /\ i \in M
                     /\ verificationCodes'[i].used = TRUE
                     /\ \A j \in M : verificationCodes[j].createdAt
                                          <= verificationCodes[i].createdAt ]_vars

\* C16: a login that answers 200 appends exactly one row and leaves every
\* row that was there as it was; so a verify whose queries resolve, with the
\* email and code of any row that is still unused and unexpired, answers 200,
\* however many codes the email has been issued.
C16_LoginKeepsOlderCodes ==
    [][ /\ ( Handled /\ res'.op = "login" /\ res'.impl = "app" /\ res'.status = 200 )
           => /\ Len(verificationCodes') = Len(verificationCodes) + 1
              /\ \A i \in 1 .. Len(verificationCodes) :
                    verificationCodes'[i] = verificationCodes[i]
        /\ ( /\ Handled /\ res'.op = "verify" /\ res'.impl = "app" /\ res'.db = "ok"
             /\ \E i \in RowsOf(res'.email.v, res'.code.v) :
                   /\ verificationCodes[i].used = FALSE
                   /\ verificationCodes[i].expiresAt > now )
           => res'.status = 200 ]_vars

\* C16, the case: an email was issued two different codes and a verify with
\* the older one answered 200 while the newer one was pending.
C16_Witness ==
    /\ res.op = "verify" /\ res.impl = "app" /\ res.status = 200 /\ res.row = 1
    /\ Len(verificationCodes) = 2
    /\ verificationCodes[2].email = verificationCodes[1].email
    /\ verificationCodes[2].code # verificationCodes[1].code
    /\ verificationCodes[2].used = FALSE

\* C17: a verify that answers 400 changes no row and leaves every session's
\* userId as it was.
C17_RejectedVerifyChangesNothing ==
    [][ ( Handled /\ res'.op = "verify" /\ res'.status = 400 )
        => /\ verificationCodes' = verificationCodes
           /\ session' = session
           /\ users' = users ]_vars

\* C18: a session's userId, when set, is the id of a user for whose email a
\* row is used; and a verify that consumes a code leaves the userId of its
\* session set.
C18_SessionBackedByConsumedCode ==
    [][ /\ \A s \in Sessions :
              session'[s] # "undefined"
              => \E u \in InitialUsers :
                    /\ u.id = session'[s]
                    /\ \E i \in 1 .. Len(verificationCodes') :
                          /\ verificationCodes'[i].email = u.email
                          /\ verificationCodes'[i].used
        /\ ( /\ Handled /\ res'.op = "verify" /\ res'.impl = "app"
             /\ \E i \in 1 .. Len(verificationCodes) :
                   ~verificationCodes[i].used /\ verificationCodes'[i].used )
           => session'[res'.sid] # "undefined" ]_vars

\* C19: every row's email ends with '@nextest.com.br' and its expiry is its
\* time of issuance plus ten minutes; and the row a login inserts holds the
\* email of a user that exists when it is inserted, and expires ten minutes
\* after the login was handled.
C19_RowsWellFormed ==
    [][ /\ \A i \in 1 .. Len(verificationCodes') :
              /\ verificationCodes'[i].email # <<>>
              /\ verificationCodes'[i].email[Len(verificationCodes'[i].email)]
                    = "@nextest.com.br"
              /\ verificationCodes'[i].expiresAt
                    = verificationCodes'[i].createdAt + 600000
        /\ \A i \in (Len(verificationCodes) + 1) .. Len(verificationCodes') :
              /\ Handled /\ res'.op = "login" /\ res'.row = i
              /\ \E u \in users : u.email = verificationCodes'[i].email
              /\ verificationCodes'[i].email = res'.email.v
              /\ verificationCodes'[i].expiresAt = now + 600000 ]_vars

\* C19, the case: the store holds a row that a login inserted for a user who
\* has since been removed, and the row has expired.
C19_Witness ==
    \E i \in 1 .. Len(verificationCodes) :
        /\ UsersByEmail(verificationCodes[i].email) = {}
        /\ verificationCodes[i].expiresAt <= now

====
